---- MODULE Spec2Model ----
(***************************************************************************)
(* Dashboard card layout engine of the Better USOS content script.         *)
(*                                                                         *)
(* One page instance of the content script is modelled: the asynchronous  *)
(* load of the stored dashboard state, setupDashboard (discovery,          *)
(* reconciliation, rendering), the hide / width / drag handlers, the       *)
(* popup's edit-mode messages and a page reload.  The DOM is the state:    *)
(* the children of the grid wrapper, and per card element its id           *)
(* attribute, its bu-hidden-card and bu-dragging classes and its           *)
(* data-bu-span attribute.                                                 *)
(*                                                                         *)
(* Elements are numbered in the order of the `frames` array of             *)
(* setupDashboard: 1 is the statistics panel, 2 the slot panel, 3.. the    *)
(* host's usos-frame elements in document order.                           *)
(***************************************************************************)
EXTENDS Integers, Sequences, FiniteSets, TLC

\* ------------------------------------------------------------------ bounds
\* Most usos-frame elements on a page reconciliation is checked on.
MaxFrames == 2
\* Most usos-frame elements on a page the user interacts with.
MaxGridFrames == 1
\* Most user events and popup messages delivered over one behaviour.
MaxEvents == 4
\* Longest order / hidden array of a stored record drawn for reconciliation.
MaxStored == 2
\* Most events delivered over one behaviour of an editing session.
MaxEditEvents == 5

\* ------------------------------------------------------- program constants
SPAN_OPTIONS == <<2, 3, 4, 6>>
SpanSet == {SPAN_OPTIONS[i] : i \in DOMAIN SPAN_OPTIONS}
StatsId == "bu-stats-frame"
SlotId == "bu-slot-frame"
\* span used by getSpan for the statistics panel / for every other card
StatsDefaultSpan == 6
OtherDefaultSpan == 3
\* span getSpans assumes for a card without data-bu-span
MissingSpan == 3

\* ------------------------------------------------------------ model values
NoEl == 0            \* null element reference
Divider == -1        \* the .bu-hidden-divider child of the wrapper
NullState == [tag |-> "null"]            \* _dashboardCache = null
AbsentItem == [tag |-> "absent"]         \* key not in chrome.storage.local
MalformedItem == [tag |-> "malformed"]   \* a value whose order is no array
NoGesture == [src |-> NoEl, gate |-> FALSE, dropped |-> FALSE]

\* ---------------------------------------------------------------- helpers
SeqToSet(s) == {s[i] : i \in DOMAIN s}
Contains(s, x) == \E i \in DOMAIN s : s[i] = x

RECURSIVE Filter(_, _)
\* Array.prototype.filter with the membership test "x \in keep"
Filter(s, keep) ==
  IF s = <<>> THEN <<>>
  ELSE (IF Head(s) \in keep THEN <<Head(s)>> ELSE <<>>) \o Filter(Tail(s), keep)

Remove(s, x) == Filter(s, SeqToSet(s) \ {x})

IndexOf(s, x) == CHOOSE i \in DOMAIN s : s[i] = x /\ \A j \in 1..(i-1) : s[j] # x

\* Node.appendChild: a node that is already a child is moved to the end
AppendChild(w, node) == Remove(w, node) \o <<node>>

\* Node.insertBefore(node, ref); ref = NoEl stands for null (append).  When
\* ref is the node itself the DOM takes the node's next sibling as ref.
InsertBefore(w, node, ref) ==
  LET next(n) == IF Contains(w, n) /\ IndexOf(w, n) < Len(w)
                 THEN w[IndexOf(w, n) + 1] ELSE NoEl
      r == IF ref = node THEN next(node) ELSE ref
      rest == Remove(w, node)
  IN IF r = NoEl \/ ~Contains(rest, r) THEN rest \o <<node>>
     ELSE LET k == IndexOf(rest, r)
          IN SubSeq(rest, 1, k - 1) \o <<node>> \o SubSeq(rest, k, Len(rest))

NextSibling(w, n) ==
  IF Contains(w, n) /\ IndexOf(w, n) < Len(w) THEN w[IndexOf(w, n) + 1] ELSE NoEl

\* ------------------------------------------------------------ getFrameId
\* The 32-bit hash is kept as an unsigned pair <<high 16 bits, low 16 bits>>
\* (two's complement), so that the arithmetic wraps the way `| 0` does.
HalfWord == 65536
Digits36 == << "0","1","2","3","4","5","6","7","8","9","a","b","c","d","e","f",
               "g","h","i","j","k","l","m","n","o","p","q","r","s","t","u","v",
               "w","x","y","z" >>

\* hash = ((hash << 5) - hash + c) | 0
HashStep(h, c) ==
  LET lo1 == 31 * h[2] + c
      hi1 == 31 * h[1] + (lo1 \div HalfWord)
  IN << hi1 % HalfWord, lo1 % HalfWord >>

RECURSIVE HashFrom(_, _)
HashFrom(h, href) ==
  IF href = <<>> THEN h ELSE HashFrom(HashStep(h, Head(href)), Tail(href))

\* Math.abs of the signed reading of the pair
AbsPair(h) ==
  IF h[1] < HalfWord \div 2 THEN h
  ELSE << (HalfWord - 1 - h[1]) + (IF h[2] = 0 THEN 1 ELSE 0),
          (HalfWord - h[2]) % HalfWord >>

RECURSIVE ToString36(_)
\* Number.prototype.toString(36)
ToString36(p) ==
  LET t == (p[1] % 36) * HalfWord + p[2]
      q == << p[1] \div 36, t \div 36 >>
      d == Digits36[(t % 36) + 1]
  IN IF q = <<0, 0>> THEN d ELSE ToString36(q) \o d

\* getFrameId hashing the title's text after the href
getFrameIdOfText(el) ==
  IF el.id # "" THEN el.id
  ELSE "bu-" \o ToString36(AbsPair(HashFrom(<<0, 0>>, el.href \o el.text)))

\* el: [id: the element's id attribute ("" when it has none),
\*      href: the char codes of the title link's href (<<>> when no link),
\*      text: the char codes of the title as displayed]
getFrameId(el) ==
  IF el.id # "" THEN el.id
  ELSE "bu-" \o ToString36(AbsPair(HashFrom(<<0, 0>>, el.href)))

\* ------------------------------------------------------------------ state
VARIABLES
  page,         \* the host page: [container: BOOLEAN, frames: Seq(element)]
  storage,      \* chrome.storage.local[DASHBOARD_STORAGE_KEY]
  contextValid, \* the extension context of this page instance is still valid
  pc,           \* position of run(): "off" (never called) | "loading" | "done"
  statsReady,   \* _statsCacheReady
  cache,        \* _dashboardCache
  cacheReady,   \* _dashboardCacheReady
  editState,    \* dashboardEditState # null
  elId,         \* element -> id attribute
  hiddenCls,    \* element -> has class bu-hidden-card
  draggingCls,  \* element -> has class bu-dragging
  buSpan,       \* element -> dataset.buSpan ("" when unset)
  spanActive,   \* element -> the spans whose width button has bu-span-active
  wrapper,      \* children of the grid wrapper, in DOM order
  editMode,     \* dashboard has class bu-edit-mode (the Edit-Mode Gate)
  dragged,      \* the `dragged` variable of setupDashboard
  gesture,      \* the browser's drag operation in progress, if any
  lastEvent,    \* the handler that ran last, its save count and its reply
  lastSaved,    \* the state most recently passed to saveDashboardState
  nEvents,      \* events delivered so far
  budget,       \* events the environment delivers at most
  syncEnabled,  \* betterUsosSettings.enabled in chrome.storage.sync
  enabledCache, \* localStorage[ENABLED_CACHE_KEY] of the page's origin
  isEnabled,    \* the isEnabled constant of this page instance
  applied,      \* the sync.get callback of run() has called applySettings
  quiet,        \* no enable/disable toggle since this page instance started
  popup         \* the popup opened over this tab: its React state

vars == << page, storage, contextValid, pc, statsReady, cache, cacheReady, editState, elId,
           hiddenCls, draggingCls, buSpan, spanActive, wrapper, editMode, dragged, gesture,
           lastEvent, lastSaved, nEvents, budget,
           syncEnabled, enabledCache, isEnabled, applied, quiet, popup >>

\* the enabled setting and its per-origin cache
flagVars == << syncEnabled, enabledCache, isEnabled, applied, quiet >>

domVars == << elId, hiddenCls, draggingCls, buSpan, spanActive, wrapper >>

\* --------------------------------------------------------------- the page
\* The usos-frame elements the host may render: one with a native id, one
\* without id and without title link, and one without id whose title link is
\* "/a", titled "PL" or, in the other language of the host, "EN".
FrameKinds ==
  { [id |-> "f1", href |-> <<47, 97>>, text |-> <<80, 76>>],
    [id |-> "",   href |-> <<>>,       text |-> <<80, 76>>],
    [id |-> "",   href |-> <<47, 97>>, text |-> <<80, 76>>],
    [id |-> "",   href |-> <<47, 97>>, text |-> <<69, 78>>] }

RECURSIVE SeqsUpTo(_, _)
\* all sequences over S of length at most n
SeqsUpTo(S, n) ==
  IF n = 0 THEN {<<>>}
  ELSE LET shorter == SeqsUpTo(S, n - 1)
       IN shorter \cup {Append(s, x) : s \in shorter, x \in S}

\* those of them that name no element twice
ListsUpTo(S, n) == {s \in SeqsUpTo(S, n) : Cardinality(SeqToSet(s)) = Len(s)}

PagesUpTo(n) ==
  {[container |-> FALSE, frames |-> <<>>]} \cup
  {[container |-> TRUE, frames |-> f] : f \in SeqsUpTo(FrameKinds, n)}

\* statsPanel and slotPanel as setupDashboard creates them
StatsPanel == [id |-> StatsId, href |-> <<>>, text |-> <<>>]
SlotPanel == [id |-> SlotId, href |-> <<>>, text |-> <<>>]

\* const frames = [statsPanel, slotPanel, ...usosFrames]
Frames(pg) == <<StatsPanel, SlotPanel>> \o pg.frames
Els(pg) == 1..(2 + Len(pg.frames))

\* ---------------------------------------------------------- reconciliation
\* the loop "Assign ids and collect default order": the id of every frame
FrameIds(frames) == [e \in DOMAIN frames |-> getFrameId(frames[e])]

\* defaultOrder.push(id) for every frame
DefaultOrder(ids) == ids

\* idToFrame.set(id, frame) for every frame, in order: a later frame with the
\* same id replaces the earlier one
IdToFrame(ids) ==
  [id \in SeqToSet(ids) |->
     CHOOSE e \in DOMAIN ids : ids[e] = id /\ \A j \in DOMAIN ids : ids[j] = id => j <= e]

\* StoredOrder without the filter: stale ids stay in the order
StoredOrderKeepsStale(state, idToFrame, defaultOrder) ==
  IF state = NullState THEN defaultOrder ELSE state.order

\* state?.order?.filter((id) => idToFrame.has(id)) ?? defaultOrder
StoredOrder(state, idToFrame, defaultOrder) ==
  IF state = NullState THEN defaultOrder
  ELSE Filter(state.order, DOMAIN idToFrame)

RECURSIVE AddNewIdsPush(_, _)
\* AddNewIds with push in place of unshift: new ids go to the end
AddNewIdsPush(order, defaultOrder) ==
  IF defaultOrder = <<>> THEN order
  ELSE AddNewIdsPush(IF Contains(order, Head(defaultOrder)) THEN order
                     ELSE Append(order, Head(defaultOrder)),
                     Tail(defaultOrder))

RECURSIVE AddNewIds(_, _)
\* for (const id of defaultOrder) if (!order.includes(id)) order.unshift(id)
AddNewIds(order, defaultOrder) ==
  IF defaultOrder = <<>> THEN order
  ELSE AddNewIds(IF Contains(order, Head(defaultOrder)) THEN order
                 ELSE <<Head(defaultOrder)>> \o order,
                 Tail(defaultOrder))

\* new Set(state?.hidden ?? [])
HiddenSet(state) == IF state = NullState THEN {} ELSE SeqToSet(state.hidden)

\* state?.spans ?? {}
StoredSpans(state) == IF state = NullState THEN << >> ELSE state.spans

\* getSpan without the SPAN_OPTIONS check
getSpanUnchecked(spans, id) ==
  IF id \in DOMAIN spans /\ spans[id] # 0 THEN spans[id]
  ELSE IF id = StatsId THEN StatsDefaultSpan ELSE OtherDefaultSpan

\* const s = spans[id]; if (s && SPAN_OPTIONS.includes(s)) return s;
\* return id === "bu-stats-frame" ? 6 : 3
getSpan(spans, id) ==
  IF id \in DOMAIN spans /\ spans[id] # 0 /\ spans[id] \in SpanSet THEN spans[id]
  ELSE IF id = StatsId THEN StatsDefaultSpan ELSE OtherDefaultSpan

VisibleOrder(order, hiddenSet) == Filter(order, SeqToSet(order) \ hiddenSet)
HiddenOrder(order, hiddenSet) == Filter(order, SeqToSet(order) \cap hiddenSet)

\* String(span) and parseInt(span, 10) on the data-bu-span attribute
SpanString(n) ==
  CASE n = 2 -> "2" [] n = 3 -> "3" [] n = 4 -> "4" [] n = 6 -> "6" [] OTHER -> "?"
ParseSpan(s) ==
  CASE s = "2" -> 2 [] s = "3" -> 3 [] s = "4" -> 4 [] s = "6" -> 6 [] OTHER -> 0

RECURSIVE AppendAll(_, _, _)
\* for (const id of ids) { frame = idToFrame.get(id); if (!frame) continue;
\*                         wrapper.appendChild(frame) }
AppendAll(w, ids, idToFrame) ==
  IF ids = <<>> THEN w
  ELSE AppendAll(IF Head(ids) \in DOMAIN idToFrame
                 THEN AppendChild(w, idToFrame[Head(ids)]) ELSE w,
                 Tail(ids), idToFrame)

\* the wrapper as built by "Build grid": visible cards, divider, hidden cards
BuildWrapper(visibleOrder, hiddenOrder, idToFrame) ==
  LET vis == AppendAll(<<>>, visibleOrder, idToFrame)
  IN IF Len(hiddenOrder) > 0
     THEN AppendAll(Append(vis, Divider), hiddenOrder, idToFrame)
     ELSE vis

\* everything setupDashboard computes from the page and the loaded state
Reconcile(pg, state) ==
  LET frames == Frames(pg)
      ids == FrameIds(frames)
      idToFrame == IdToFrame(ids)
      defaultOrder == DefaultOrder(ids)
      order == AddNewIds(StoredOrder(state, idToFrame, defaultOrder), defaultOrder)
      hiddenSet == HiddenSet(state)
      visibleOrder == VisibleOrder(order, hiddenSet)
      hiddenOrder == HiddenOrder(order, hiddenSet)
  IN [ ids |-> ids, idToFrame |-> idToFrame, defaultOrder |-> defaultOrder,
       order |-> order, visibleOrder |-> visibleOrder, hiddenOrder |-> hiddenOrder,
       wrapper |-> BuildWrapper(visibleOrder, hiddenOrder, idToFrame),
       hiddenEls |-> {idToFrame[id] : id \in SeqToSet(hiddenOrder) \cap DOMAIN idToFrame},
       placedEls |-> {idToFrame[id] : id \in SeqToSet(order) \cap DOMAIN idToFrame},
       spanOf |-> [id \in SeqToSet(order) |-> getSpan(StoredSpans(state), id)] ]

\* if (getSpan(id) === span) btn.classList.add("bu-span-active"), for the
\* button of every span of SPAN_OPTIONS
ActiveButtons(spans, id) == {span \in SpanSet : getSpan(spans, id) = span}

\* the DOM setupDashboard leaves: ids written back, the grid built, the hidden
\* cards marked and applySpan(frame, getSpan(id)) done for every placed card
RenderedDom(pg, state) ==
  LET r == Reconcile(pg, state)
  IN [ elId |-> r.ids,
       wrapper |-> r.wrapper,
       hiddenCls |-> [e \in Els(pg) |-> e \in r.hiddenEls],
       buSpan |-> [e \in Els(pg) |->
                     IF e \in r.placedEls THEN SpanString(r.spanOf[r.ids[e]]) ELSE ""],
       spanActive |-> [e \in Els(pg) |-> ActiveButtons(StoredSpans(state), r.ids[e])] ]

\* ------------------------------------------------- snapshot of the live DOM
Cards(w) == Filter(w, SeqToSet(w) \ {Divider})

\* getFrameId applied to a live element: its current id attribute, and the
\* title link the host rendered into it
LiveEl(pg, ids, e) ==
  [id |-> ids[e], href |-> Frames(pg)[e].href, text |-> Frames(pg)[e].text]

\* getCurrentOrder answering from the loaded state instead of the DOM
getCurrentOrderOfCache(pg, ids, w) ==
  IF cache = NullState THEN [i \in DOMAIN Cards(w) |-> getFrameId(LiveEl(pg, ids, Cards(w)[i]))]
  ELSE cache.order

\* Array.from(wrapper.querySelectorAll(CARD_SEL)).map((f) => getFrameId(f))
getCurrentOrder(pg, ids, w) ==
  [i \in DOMAIN Cards(w) |-> getFrameId(LiveEl(pg, ids, Cards(w)[i]))]

\* getHiddenIds selecting the cards without the class
getHiddenIdsInverted(pg, ids, w, hid) ==
  LET shown == Filter(Cards(w), {e \in SeqToSet(Cards(w)) : ~hid[e]})
  IN [i \in DOMAIN shown |-> getFrameId(LiveEl(pg, ids, shown[i]))]

\* wrapper.querySelectorAll(`:is(${CARD_SEL}).bu-hidden-card`) mapped to ids
getHiddenIds(pg, ids, w, hid) ==
  LET hiddenCards == Filter(Cards(w), {e \in SeqToSet(Cards(w)) : hid[e]})
  IN [i \in DOMAIN hiddenCards |-> getFrameId(LiveEl(pg, ids, hiddenCards[i]))]

\* n = span ? parseInt(span, 10) : 3
SpanNumber(attr) == IF attr = "" THEN MissingSpan ELSE ParseSpan(attr)

\* out[id] = n for every card whose n is one of SPAN_OPTIONS; the last card
\* with an id decides its entry
getSpans(pg, ids, w, spanAttr) ==
  LET cs == Cards(w)
      idAt(i) == getFrameId(LiveEl(pg, ids, cs[i]))
      valid == {i \in DOMAIN cs : SpanNumber(spanAttr[cs[i]]) \in SpanSet}
  IN [id \in {idAt(i) : i \in valid} |->
        LET last == CHOOSE i \in valid : idAt(i) = id /\ \A j \in valid : idAt(j) = id => j <= i
        IN SpanNumber(spanAttr[cs[last]])]

\* the argument persistOrder passes to saveDashboardState
Snapshot(pg, ids, w, hid, spanAttr) ==
  [ tag |-> "state",
    order |-> getCurrentOrder(pg, ids, w),
    hidden |-> getHiddenIds(pg, ids, w, hid),
    spans |-> getSpans(pg, ids, w, spanAttr) ]

\* ------------------------------------------------------------------ events
Event(type, el, saves) ==
  [type |-> type, el |-> el, saves |-> saves, active |-> FALSE,
   hasDashboard |-> FALSE, ok |-> FALSE, dropped |-> FALSE, above |-> FALSE]
NoEvent == Event("none", NoEl, 0)
NeverSaved == [state |-> NullState, written |-> FALSE]

\* the stored records an interactive behaviour may start from
SeedItems(pg) ==
  LET ids == FrameIds(Frames(pg))
      lastId == ids[Len(ids)]
  IN { AbsentItem,
       [tag |-> "state", order |-> <<"gone", lastId, StatsId>>,
        hidden |-> <<lastId, "gone">>, spans |-> (lastId :> 4) @@ ("gone" :> 2)] }

\* the stored records reconciliation is checked on: every duplicate-free order
\* of at most MaxStored ids and every hidden array shorter than that, the ids
\* being those of the page and one id of a card that no longer exists
StoredIds(pg) == SeqToSet(FrameIds(Frames(pg))) \cup {"gone"}
SpanChoices(pg) ==
  LET ids == FrameIds(Frames(pg))
  IN { << >>, ("gone" :> 4), (ids[Len(ids)] :> 2), (ids[Len(ids)] :> 5),
       (StatsId :> 4) @@ (SlotId :> 0) }
AllItems(pg) ==
  { AbsentItem, MalformedItem } \cup
  { [tag |-> "state", order |-> o, hidden |-> h, spans |-> sp] :
      o \in ListsUpTo(StoredIds(pg), MaxStored),
      h \in ListsUpTo(StoredIds(pg), MaxStored - 1),
      sp \in SpanChoices(pg) }

\* a fresh instance of the content script on page pg, run() being at its await
InitPage(pg, statsDone, enabled) ==
  /\ page = pg
  /\ contextValid = TRUE
  /\ pc = IF enabled THEN "loading" ELSE "off"
  /\ statsReady = statsDone
  /\ cache = NullState
  /\ cacheReady = FALSE
  /\ editState = FALSE
  /\ elId = [e \in Els(pg) |-> Frames(pg)[e].id]
  /\ hiddenCls = [e \in Els(pg) |-> FALSE]
  /\ draggingCls = [e \in Els(pg) |-> FALSE]
  /\ buSpan = [e \in Els(pg) |-> ""]
  /\ spanActive = [e \in Els(pg) |-> {}]
  /\ wrapper = <<>>
  /\ editMode = FALSE
  /\ dragged = NoEl
  /\ gesture = NoGesture
  /\ lastEvent = NoEvent

\* JSON.stringify of a boolean
Stringify(b) == IF b THEN "true" ELSE "false"

\* raw === null ? true : JSON.parse(raw)
IsEnabled(raw) == IF raw = "null" THEN TRUE ELSE raw = "true"

\* the popup before it is opened: useState(null), useState(false),
\* getDefaultSettings().enabled
ClosedPopup == [open |-> FALSE, editActive |-> "null", hasDashboard |-> FALSE, enabled |-> TRUE]

\* a page instance that evaluated isEnabled from a cache holding flag ("null"
\* when the key is absent), the setting in sync storage being sync ("unset"
\* when it has none): run() is called only when enabled
InitFlags(flag, sync) ==
  /\ syncEnabled = sync
  /\ enabledCache = flag
  /\ isEnabled = IsEnabled(flag)
  /\ applied = FALSE
  /\ quiet = TRUE
  /\ popup = ClosedPopup

\* a page instance right after run() has started both cache loads, or one the
\* cached flag has switched off
Init ==
  \E pg \in PagesUpTo(MaxGridFrames), flag \in BOOLEAN :
    /\ InitPage(pg, FALSE, flag)
    /\ InitFlags(Stringify(flag), Stringify(flag))
    /\ storage \in SeedItems(pg)
    /\ lastSaved = NeverSaved
    /\ nEvents = 0
    /\ budget = MaxEvents

\* every event of the environment (a user gesture, a popup message, a reload,
\* the loss of the extension context) is counted against the budget
CanDeliver == nEvents < budget
Delivered == nEvents' = nEvents + 1

\* ----------------------------------------------------------------- loading
\* initStatsCache resolves (its own try/catch: it never rejects)
InitStatsCacheDone ==
  /\ pc = "loading" /\ ~statsReady
  /\ statsReady' = TRUE
  /\ lastEvent' = Event("loadStats", NoEl, 0)
  /\ UNCHANGED << budget, flagVars, popup, page, storage, contextValid, pc, cache, cacheReady, editState, domVars,
                  editMode, dragged, gesture, lastSaved, nEvents >>

\* data && Array.isArray(data.order) && Array.isArray(data.hidden)
Loadable(item) == item.tag = "state"

\* initDashboardCache resolves: the get succeeded, or it threw because the
\* extension context was gone
InitDashboardCacheDone ==
  /\ pc = "loading" /\ ~cacheReady
  /\ cache' = IF contextValid /\ Loadable(storage) THEN storage ELSE cache
  /\ lastEvent' = [Event("loadDashboard", NoEl, 0) EXCEPT !.ok = contextValid]
  /\ cacheReady' = TRUE
  /\ UNCHANGED << budget, flagVars, popup, page, storage, contextValid, pc, statsReady, editState, domVars, editMode,
                  dragged, gesture, lastSaved, nEvents >>

\* run() awaiting the statistics cache only
RunAwaitsStatsOnly == statsReady

\* await Promise.all([initStatsCache(), initDashboardCache()])
RunMayContinue == statsReady /\ cacheReady

\* the early return testing the container alone
HasContainerOnly(pg) == pg.container

\* if (!dashboard || !dashboard.querySelector("usos-frame")) return
HasDashboard(pg) == pg.container /\ Len(pg.frames) > 0

\* run() past its await: setupDashboard()
SetupDashboard ==
  /\ pc = "loading" /\ RunMayContinue
  /\ pc' = "done"
  /\ lastEvent' = Event("setup", NoEl, 0)
  /\ IF HasDashboard(page)
     THEN LET dom == RenderedDom(page, cache)
          IN /\ elId' = dom.elId
             /\ wrapper' = dom.wrapper
             /\ hiddenCls' = dom.hiddenCls
             /\ buSpan' = dom.buSpan
             /\ spanActive' = dom.spanActive
             /\ editState' = TRUE
             /\ UNCHANGED draggingCls
     ELSE UNCHANGED << domVars, editState >>
  /\ UNCHANGED << budget, flagVars, popup, page, storage, contextValid, statsReady, cache, cacheReady, editMode, dragged,
                  gesture, lastSaved, nEvents >>

\* a fresh instance of the content script over the same host page: isEnabled
\* is evaluated from the cached flag, and run() is called when it is true
FreshInstance(flag) ==
  /\ contextValid' = TRUE
  /\ isEnabled' = IsEnabled(flag)
  /\ pc' = IF isEnabled' THEN "loading" ELSE "off"
  /\ applied' = FALSE
  /\ quiet' = TRUE
  /\ statsReady' = FALSE
  /\ cache' = NullState
  /\ cacheReady' = FALSE
  /\ editState' = FALSE
  /\ elId' = [e \in Els(page) |-> Frames(page)[e].id]
  /\ hiddenCls' = [e \in Els(page) |-> FALSE]
  /\ draggingCls' = [e \in Els(page) |-> FALSE]
  /\ buSpan' = [e \in Els(page) |-> ""]
  /\ spanActive' = [e \in Els(page) |-> {}]
  /\ wrapper' = <<>>
  /\ editMode' = FALSE
  /\ dragged' = NoEl
  /\ gesture' = NoGesture
  /\ lastEvent' = NoEvent

\* the page is loaded again, over the same extension storage
Reload ==
  /\ CanDeliver /\ Delivered
  /\ FreshInstance(enabledCache)
  /\ UNCHANGED << budget, syncEnabled, enabledCache, popup, page, storage, lastSaved >>

\* settings.enabled ?? true
SettingEnabled(sync) == sync # "false"

\* the callback of chrome.storage.sync.get at the end of run():
\* applySettings caches the synced enabled setting for the next page load
ApplySettings ==
  /\ pc = "done" /\ ~applied /\ contextValid
  /\ applied' = TRUE
  /\ enabledCache' = Stringify(SettingEnabled(syncEnabled))
  /\ UNCHANGED << budget, syncEnabled, isEnabled, quiet, popup, page, storage, contextValid,
                  pc, statsReady, cache, cacheReady, editState, domVars, editMode, dragged,
                  gesture, lastEvent, lastSaved, nEvents >>

\* ------------------------------------------------------------- persistence
\* a set that never reaches the store
StorageSetLost(item, state, valid) == item

\* a set that reaches the store although the call threw
StorageSetAnyway(item, state, valid) == state

\* chrome.storage.local.set({[DASHBOARD_STORAGE_KEY]: state}): takes effect,
\* or throws (and is ignored) once the extension context is gone
StorageSet(item, state, valid) == IF valid THEN state ELSE item

\* saveDashboardState(state)
SaveDashboardState(state) ==
  /\ cache' = state
  /\ storage' = StorageSet(storage, state, contextValid)
  /\ lastSaved' = [state |-> state, written |-> contextValid]

\* persistOrder() on the DOM the handler leaves behind
PersistOrder(w, hid, spanAttr) ==
  SaveDashboardState(Snapshot(page, elId, w, hid, spanAttr))

NoSave == UNCHANGED << cache, storage, lastSaved >>

\* a card the user can point at: a child of the rendered grid
InGrid(e) == editState /\ Contains(wrapper, e) /\ e # Divider

\* ------------------------------------------------------ hide / width clicks
\* the count taken over every card, hidden or not
HiddenCountOfAll(w, hid) == Cardinality(SeqToSet(Cards(w)))

\* wrapper.querySelectorAll(`:is(${CARD_SEL}).bu-hidden-card`).length
HiddenCount(w, hid) == Cardinality({e \in SeqToSet(Cards(w)) : hid[e]})

\* the hide branch leaving the card where it is
HideMoveInPlace(w, e) == w

\* if (!wrapper.contains(divider)) wrapper.appendChild(divider);
\* wrapper.appendChild(frame)
HideMove(w, e) ==
  AppendChild(IF Contains(w, Divider) THEN w ELSE Append(w, Divider), e)

\* hideBtn click handler of card e
HideClick(e) ==
  /\ CanDeliver /\ InGrid(e) /\ gesture = NoGesture
  /\ Delivered
  /\ LET willBeHidden == ~hiddenCls[e]
         hid == [hiddenCls EXCEPT ![e] = willBeHidden]
     IN IF willBeHidden
        THEN LET w2 == HideMove(wrapper, e)
             IN /\ hiddenCls' = hid
                /\ wrapper' = w2
                /\ PersistOrder(w2, hid, buSpan)
                /\ lastEvent' = Event("hide", NoEl, 1)
        ELSE IF ~Contains(wrapper, Divider)
        THEN \* insertBefore throws: the reference node is no child
             /\ hiddenCls' = hid
             /\ wrapper' = wrapper
             /\ NoSave
             /\ lastEvent' = Event("hide", NoEl, 0)
        ELSE LET w1 == InsertBefore(wrapper, e, Divider)
                 w2 == IF HiddenCount(w1, hid) = 0 THEN Remove(w1, Divider) ELSE w1
             IN /\ hiddenCls' = hid
                /\ wrapper' = w2
                /\ PersistOrder(w2, hid, buSpan)
                /\ lastEvent' = Event("hide", NoEl, 1)
  /\ UNCHANGED << budget, flagVars, popup, page, contextValid, pc, statsReady, cacheReady, editState, elId, draggingCls,
                  buSpan, spanActive, editMode, dragged, gesture >>

\* applySpan(frame, span): frame.dataset.buSpan = String(span)
applySpan(spanAttr, e, span) == [spanAttr EXCEPT ![e] = SpanString(span)]

\* the click that also leaves the buttons highlighted before it highlighted
SelectButtonAdding(active, e, span) == [active EXCEPT ![e] = @ \cup {span}]

\* every .bu-span-btn of the card loses bu-span-active, then the clicked
\* button gets it
SelectButton(active, e, span) == [active EXCEPT ![e] = {span}]

\* click handler of the width button `span` of card e
WidthClick(e, span) ==
  /\ CanDeliver /\ InGrid(e) /\ gesture = NoGesture
  /\ Delivered
  /\ buSpan' = applySpan(buSpan, e, span)
  /\ spanActive' = SelectButton(spanActive, e, span)
  /\ PersistOrder(wrapper, hiddenCls, buSpan')
  /\ lastEvent' = Event("width", NoEl, 1)
  /\ UNCHANGED << budget, flagVars, popup, page, contextValid, pc, statsReady, cacheReady, editState, elId, hiddenCls,
                  draggingCls, wrapper, editMode, dragged, gesture >>

\* ------------------------------------------------------------ drag and drop
\* onDragStart without its edit-mode check
DragStartUngated == TRUE

\* if (!dashboard.classList.contains("bu-edit-mode")) return
DragStartAllowed == editMode

\* onDragStart on card e; the browser starts a drag operation either way
DragStart(e) ==
  /\ CanDeliver /\ InGrid(e) /\ gesture = NoGesture
  /\ Delivered
  /\ gesture' = [src |-> e, gate |-> editMode, dropped |-> FALSE]
  /\ IF DragStartAllowed
     THEN /\ dragged' = e
          /\ draggingCls' = [draggingCls EXCEPT ![e] = TRUE]
     ELSE UNCHANGED << dragged, draggingCls >>
  /\ lastEvent' = Event("dragstart", NoEl, 0)
  /\ NoSave
  /\ UNCHANGED << budget, flagVars, popup, page, contextValid, pc, statsReady, cacheReady, editState, elId, hiddenCls,
                  buSpan, spanActive, wrapper, editMode >>

\* onDragOver without its partition check
AnyPartition(hid, d, t) == TRUE

\* if (draggedHidden !== targetHidden) return
SamePartition(hid, d, t) == hid[d] = hid[t]

\* onDragOver putting the card before the target wherever the pointer is
DragOverWrapperBefore(w, hid, d, target, above) ==
  IF d = NoEl \/ target = d THEN w
  ELSE IF ~SamePartition(hid, d, target) THEN w
  ELSE InsertBefore(w, d, target)

\* onDragOver making the dragged card and the target trade places
DragOverWrapperSwap(w, hid, d, target, above) ==
  IF d = NoEl \/ target = d THEN w
  ELSE IF ~SamePartition(hid, d, target) THEN w
  ELSE [i \in DOMAIN w |-> IF w[i] = d THEN target ELSE IF w[i] = target THEN d ELSE w[i]]

\* the wrapper onDragOver leaves, target being the card under the pointer and
\* above telling whether e.clientY < mid
DragOverWrapper(w, hid, d, target, above) ==
  IF d = NoEl \/ target = d THEN w
  ELSE IF ~SamePartition(hid, d, target) THEN w
  ELSE IF above THEN InsertBefore(w, d, target)
  ELSE InsertBefore(w, d, NextSibling(w, target))

\* onDragOver that persists the previewed order
DragOverSaving(target, above) ==
  /\ CanDeliver /\ InGrid(target)
  /\ gesture # NoGesture /\ ~gesture.dropped
  /\ Delivered
  /\ wrapper' = DragOverWrapper(wrapper, hiddenCls, dragged, target, above)
  /\ lastEvent' = [Event("dragover", target, 1) EXCEPT !.above = above]
  /\ PersistOrder(wrapper', hiddenCls, buSpan)
  /\ UNCHANGED << budget, flagVars, popup, page, contextValid, pc, statsReady, cacheReady, editState, elId, hiddenCls,
                  draggingCls, buSpan, spanActive, editMode, dragged, gesture >>

\* onDragOver
DragOver(target, above) ==
  /\ CanDeliver /\ InGrid(target)
  /\ gesture # NoGesture /\ ~gesture.dropped
  /\ Delivered
  /\ wrapper' = DragOverWrapper(wrapper, hiddenCls, dragged, target, above)
  /\ lastEvent' = [Event("dragover", target, 0) EXCEPT !.above = above]
  /\ NoSave
  /\ UNCHANGED << budget, flagVars, popup, page, contextValid, pc, statsReady, cacheReady, editState, elId, hiddenCls,
                  draggingCls, buSpan, spanActive, editMode, dragged, gesture >>

\* onDrop: persistOrder()
Drop(target) ==
  /\ CanDeliver /\ InGrid(target)
  /\ gesture # NoGesture /\ ~gesture.dropped
  /\ Delivered
  /\ gesture' = [gesture EXCEPT !.dropped = TRUE]
  /\ PersistOrder(wrapper, hiddenCls, buSpan)
  /\ lastEvent' = Event("drop", NoEl, 1)
  /\ UNCHANGED << budget, flagVars, popup, page, contextValid, pc, statsReady, cacheReady, editState, domVars, editMode,
                  dragged >>

\* onDragEnd that leaves the class on the card
KeepDragging(cls, d) == cls

\* dragged?.classList.remove("bu-dragging")
ClearDragging(cls, d) == IF d = NoEl THEN cls ELSE [cls EXCEPT ![d] = FALSE]

\* onDragEnd, fired on the source card when the drag operation ends
DragEnd ==
  /\ CanDeliver /\ gesture # NoGesture
  /\ Delivered
  /\ draggingCls' = ClearDragging(draggingCls, dragged)
  /\ dragged' = NoEl
  /\ gesture' = NoGesture
  /\ lastEvent' = [Event("dragend", dragged, 0) EXCEPT !.dropped = gesture.dropped]
  /\ NoSave
  /\ UNCHANGED << budget, flagVars, popup, page, contextValid, pc, statsReady, cacheReady, editState, elId, hiddenCls,
                  buSpan, spanActive, wrapper, editMode >>

\* ---------------------------------------------------------- popup messages
\* the reply reporting the gate as the opposite of what it is
ReplyActiveInverted(has, mode) == has /\ ~mode

\* active = hasDashboard && dashboard.classList.contains("bu-edit-mode")
ReplyActive(has, mode) == has /\ mode

\* msg.type === "GET_DASHBOARD_EDIT_STATE"
OnGetDashboardEditState ==
  /\ CanDeliver /\ contextValid
  /\ Delivered
  /\ lastEvent' = [Event("get", NoEl, 0) EXCEPT
                     !.hasDashboard = editState,
                     !.active = ReplyActive(editState, editMode)]
  /\ NoSave
  /\ UNCHANGED << budget, flagVars, page, contextValid, pc, statsReady, cacheReady, editState,
                  domVars, editMode, dragged, gesture >>

\* the message sent by a popup whose state is not followed
GetDashboardEditState == OnGetDashboardEditState /\ UNCHANGED popup

\* a listener that toggles without looking at dashboardEditState
CanToggleAlways(es) == TRUE

\* if (!dashboardEditState) { sendResponse({ active: false }); return true }
CanToggle(es) == es

\* classList.add in place of classList.toggle
ToggleGateOn(mode) == TRUE

\* dashboard.classList.toggle("bu-edit-mode"): the class's new presence
ToggleGate(mode) == ~mode

\* a toggle that persists whichever way the gate went
ToggleSavesAlways(active) == TRUE

\* if (!active) persistOrder()
ToggleSaves(active) == ~active

\* msg.type === "TOGGLE_DASHBOARD_EDIT"
OnToggleDashboardEdit ==
  /\ CanDeliver /\ contextValid
  /\ Delivered
  /\ IF ~CanToggle(editState)
     THEN /\ lastEvent' = Event("toggle", NoEl, 0)
          /\ NoSave
          /\ UNCHANGED editMode
     ELSE LET active == ToggleGate(editMode)
          IN /\ editMode' = active
             /\ IF ToggleSaves(active)
                THEN /\ PersistOrder(wrapper, hiddenCls, buSpan)
                     /\ lastEvent' = [Event("toggle", NoEl, 1) EXCEPT !.active = active]
                ELSE /\ NoSave
                     /\ lastEvent' = [Event("toggle", NoEl, 0) EXCEPT !.active = active]
  /\ UNCHANGED << budget, flagVars, page, contextValid, pc, statsReady, cacheReady, editState,
                  domVars, dragged, gesture >>

\* the message sent by a popup whose state is not followed
ToggleDashboardEdit == OnToggleDashboardEdit /\ UNCHANGED popup

\* ---------------------------------------------------------------- the popup
\* the popup is opened over this tab: its two effects ask the page for the
\* edit state and read the settings from sync storage
PopupMount ==
  /\ ~popup.open
  /\ OnGetDashboardEditState
  /\ popup' = [ open |-> TRUE,
                hasDashboard |-> lastEvent'.hasDashboard,
                editActive |-> Stringify(lastEvent'.active),
                enabled |-> SettingEnabled(syncEnabled) ]

\* handleToggleEdit, on the button shown when hasDashboard && !off
PopupToggleEdit ==
  /\ popup.open /\ popup.hasDashboard /\ popup.enabled
  /\ OnToggleDashboardEdit
  /\ popup' = [popup EXCEPT !.editActive = Stringify(lastEvent'.active)]

\* handleEnabled(!settings.enabled): persist to sync storage and send
\* SET_ENABLED to this tab, whose listener caches the flag and reloads the page
PopupSetEnabled ==
  /\ popup.open /\ contextValid
  /\ CanDeliver /\ Delivered
  /\ LET enabled == ~popup.enabled
     IN /\ popup' = [popup EXCEPT !.enabled = enabled]
        /\ syncEnabled' = Stringify(enabled)
        /\ enabledCache' = Stringify(enabled)
        /\ FreshInstance(enabledCache')
  /\ UNCHANGED << budget, page, storage, lastSaved >>

\* the popup loses focus and is destroyed
PopupClose ==
  /\ popup.open
  /\ popup' = ClosedPopup
  /\ UNCHANGED << budget, flagVars, page, storage, contextValid, pc, statsReady, cache,
                  cacheReady, editState, domVars, editMode, dragged, gesture, lastEvent,
                  lastSaved, nEvents >>

\* handleEnabled in a popup opened while another tab was the active one: the
\* setting is persisted, SET_ENABLED goes to that other tab
SetEnabledElsewhere(enabled) ==
  /\ ~popup.open
  /\ CanDeliver /\ Delivered
  /\ syncEnabled' = Stringify(enabled)
  /\ quiet' = FALSE
  /\ UNCHANGED << budget, enabledCache, isEnabled, applied, popup, page, storage,
                  contextValid, pc, statsReady, cache, cacheReady, editState, domVars,
                  editMode, dragged, gesture, lastEvent, lastSaved >>

\* the extension is reloaded, updated or disabled while the page stays open:
\* from now on every chrome.* call of this page instance throws and no
\* message reaches its listener
InvalidateContext ==
  /\ CanDeliver /\ contextValid
  /\ Delivered
  /\ contextValid' = FALSE
  /\ UNCHANGED << budget, flagVars, popup, page, storage, pc, statsReady, cache, cacheReady, editState,
                  domVars, editMode, dragged, gesture, lastEvent, lastSaved >>

\* ----------------------------------------------------------- specification
Next ==
  \/ InitStatsCacheDone
  \/ InitDashboardCacheDone
  \/ SetupDashboard
  \/ Reload
  \/ InvalidateContext
  \/ \E e \in Els(page) : HideClick(e)
  \/ \E e \in Els(page), span \in SpanSet : WidthClick(e, span)
  \/ \E e \in Els(page) : DragStart(e)
  \/ \E t \in Els(page), above \in BOOLEAN : DragOver(t, above)
  \/ \E t \in Els(page) : Drop(t)
  \/ DragEnd
  \/ GetDashboardEditState
  \/ ToggleDashboardEdit

Spec == Init /\ [][Next]_vars

\* Reconciliation on its own: a page instance whose statistics cache has
\* resolved, over every page of at most MaxFrames frames and every stored
\* record of AllItems; the dashboard cache loads and setupDashboard runs.
InitReconcile ==
  \E pg \in PagesUpTo(MaxFrames) :
    /\ InitPage(pg, TRUE, TRUE)
    /\ InitFlags("true", "true")
    /\ storage \in AllItems(pg)
    /\ lastSaved = NeverSaved
    /\ nEvents = 0
    /\ budget = 0

NextReconcile ==
  \/ InitDashboardCacheDone
  \/ SetupDashboard

SpecReconcile == InitReconcile /\ [][NextReconcile]_vars

\* An editing session on its own: a page with a dashboard, the extension
\* enabled; the load, setupDashboard, the popup's edit toggle, the hide
\* control and the four drag events, over MaxEditEvents events.
InitEdit ==
  \E pg \in {q \in PagesUpTo(MaxGridFrames) : HasDashboard(q)} :
    /\ InitPage(pg, FALSE, TRUE)
    /\ InitFlags("true", "true")
    /\ storage \in SeedItems(pg)
    /\ lastSaved = NeverSaved
    /\ nEvents = 0
    /\ budget = MaxEditEvents

NextEdit ==
  \/ InitStatsCacheDone
  \/ InitDashboardCacheDone
  \/ SetupDashboard
  \/ ToggleDashboardEdit
  \/ \E e \in Els(page) : HideClick(e)
  \/ \E e \in Els(page) : DragStart(e)
  \/ \E t \in Els(page), above \in BOOLEAN : DragOver(t, above)
  \/ \E t \in Els(page) : Drop(t)
  \/ DragEnd

SpecEdit == InitEdit /\ [][NextEdit]_vars

\* The popup and the enabled setting: page loads, the popup opened over this
\* tab, and the enabled setting toggled there or while another tab is active.
\* A cached flag that is off agrees with the synced setting at the start.
FlagStarts ==
  {<<flag, sync>> : flag \in {"null", "true"}, sync \in {"unset", "true", "false"}}
    \cup {<<"false", "false">>}

InitPopup ==
  \E pg \in PagesUpTo(MaxGridFrames), fs \in FlagStarts :
    /\ InitPage(pg, FALSE, IsEnabled(fs[1]))
    /\ InitFlags(fs[1], fs[2])
    /\ storage \in SeedItems(pg)
    /\ lastSaved = NeverSaved
    /\ nEvents = 0
    /\ budget = MaxEvents

NextPopup ==
  \/ InitStatsCacheDone
  \/ InitDashboardCacheDone
  \/ SetupDashboard
  \/ ApplySettings
  \/ Reload
  \/ PopupMount
  \/ PopupToggleEdit
  \/ PopupSetEnabled
  \/ PopupClose
  \/ \E enabled \in BOOLEAN : SetEnabledElsewhere(enabled)

SpecPopup == InitPopup /\ [][NextPopup]_vars

\* ================================================================== claims
\* setupDashboard ran to its end on this page instance and nothing has
\* touched the grid since
JustSetUp == pc = "done" /\ editState /\ lastEvent.type = "setup"

\* what the reconciliation of this page instance computed
Rec == Reconcile(page, cache)
DiscoveredIds == SeqToSet(Rec.ids)
Occurrences(seq, x) == Cardinality({i \in DOMAIN seq : seq[i] = x})
\* every occurrence of x in seq comes before every occurrence of y
AllBefore(seq, x, y) ==
  \A i, j \in DOMAIN seq : (seq[i] = x /\ seq[j] = y) => i < j

\* C1 (as claimed): after reconciliation visibleOrder and hiddenOrder together
\* hold every discovered card id exactly once, and no other id.
C1_Completeness ==
  JustSetUp =>
    LET both == Rec.visibleOrder \o Rec.hiddenOrder
    IN /\ SeqToSet(both) = DiscoveredIds
       /\ \A id \in DiscoveredIds : Occurrences(both, id) = 1

C3_FirstSeenWins ==
  JustSetUp =>
    \A e \in Els(page) :
      LET id == Rec.ids[e]
          first == CHOOSE f \in Els(page) :
                     Rec.ids[f] = id /\ \A g \in Els(page) : Rec.ids[g] = id => f <= g
      IN /\ Occurrences(Rec.defaultOrder, id) = 1
         /\ Rec.idToFrame[id] = first
         /\ Contains(wrapper, first)

LayoutOf(pg, dom) ==
  LET cs == Cards(dom.wrapper)
      idOf(e) == getFrameId(LiveEl(pg, dom.elId, e))
      shown == Filter(cs, {e \in SeqToSet(cs) : ~dom.hiddenCls[e]})
      hid == Filter(cs, {e \in SeqToSet(cs) : dom.hiddenCls[e]})
  IN [ visibleOrder |-> [i \in DOMAIN shown |-> idOf(shown[i])],
       hiddenOrder |-> [i \in DOMAIN hid |-> idOf(hid[i])],
       spans |-> [e \in SeqToSet(cs) |-> dom.buSpan[e]],
       grid |-> dom.wrapper ]

LiveDom == [elId |-> elId, wrapper |-> wrapper, hiddenCls |-> hiddenCls, buSpan |-> buSpan]

LoadedAfterSave ==
  lastEvent.type = "loadDashboard" /\ lastEvent.ok /\ lastSaved # NeverSaved

C7_LoadBeforeSetup == pc = "done" => cacheReady

\* setupDashboard has run after a load that failed although a record was stored
C7_Witness ==
  /\ pc = "done" /\ editState /\ cacheReady
  /\ Loadable(storage) /\ cache = NullState

\* a drag-over was delivered while a card was being dragged, on a target of
\* the other visibility partition
CrossPartitionDragOver(ev, d, hid) ==
  /\ ev.type = "dragover"
  /\ d # NoEl /\ ev.el # d
  /\ hid[d] # hid[ev.el]

\* C8: a drag-over whose target is in the other visibility partition than the
\* dragged card changes no card's position or hidden membership and writes
\* nothing to the store.
C8_PartitionGuard ==
  [][ (nEvents' = nEvents + 1 /\ CrossPartitionDragOver(lastEvent', dragged, hiddenCls))
        => /\ wrapper' = wrapper
           /\ hiddenCls' = hiddenCls
           /\ lastEvent'.saves = 0
           /\ storage' = storage /\ cache' = cache /\ lastSaved' = lastSaved ]_vars

C8_Witness == CrossPartitionDragOver(lastEvent, dragged, hiddenCls)

\* C9: after every drag-end, with or without a drop, the dragged reference is
\* null and no card carries the dragging marker.
C9_DragCleanup ==
  lastEvent.type = "dragend" =>
    /\ dragged = NoEl
    /\ \A e \in Els(page) : ~draggingCls[e]
    /\ gesture = NoGesture

\* the drag of a card ended after a drop
C9_Witness ==
  /\ lastEvent.type = "dragend" /\ lastEvent.el # NoEl
  /\ lastEvent.dropped

\* a drag operation that began while the gate was inactive is in progress
UngatedGesture(g) == g # NoGesture /\ ~g.gate

\* C10: a drag-start received while the Edit-Mode Gate is inactive creates no
\* drag session: the dragged reference stays null, no card gets the marker and
\* the drag-overs of that gesture reorder nothing.
C10_NoSessionWhenGateInactive ==
  [][ /\ UngatedGesture(gesture') =>
           (dragged' = NoEl /\ \A e \in Els(page) : ~draggingCls'[e])
      /\ (UngatedGesture(gesture) /\ lastEvent'.type = "dragover") =>
           wrapper' = wrapper ]_vars

\* a drag-over on another card was delivered in such a gesture
C10_Witness ==
  /\ UngatedGesture(gesture)
  /\ lastEvent.type = "dragover" /\ lastEvent.el # gesture.src
  /\ dragged = NoEl

\* the step is the handler of an event of this type running to its end
Handled(type) ==
  /\ nEvents' = nEvents + 1
  /\ contextValid' = contextValid
  /\ lastEvent'.type = type

\* the step calls saveDashboardState once, with the snapshot of the DOM the
\* step leaves, and nothing else touches the cache or the store
SavesLiveDomOnce ==
  /\ lastEvent'.saves = 1
  /\ lastSaved'.state = Snapshot(page, elId', wrapper', hiddenCls', buSpan')
  /\ cache' = lastSaved'.state
  /\ lastSaved'.written = contextValid
  /\ storage' = IF contextValid THEN lastSaved'.state ELSE storage

\* the step calls saveDashboardState not at all
SavesNothing ==
  /\ lastEvent'.saves = 0
  /\ storage' = storage /\ cache' = cache /\ lastSaved' = lastSaved

\* the stored record is the layout slot, card, statistics with nothing hidden
StoredStatsLast(item) ==
  /\ item.tag = "state"
  /\ Len(item.order) = 3 /\ item.order[1] = SlotId /\ item.order[3] = StatsId
  /\ item.hidden = <<>>

\* C11: among the drag events only drop writes to the store: drag-start,
\* drag-over and drag-end never save, and each drop saves once the state read
\* from the live DOM at that moment.
C11_OnlyDropSaves ==
  [][ /\ (Handled("dragstart") \/ Handled("dragover") \/ Handled("dragend"))
           => SavesNothing
      /\ Handled("drop") => (SavesLiveDomOnce /\ UNCHANGED domVars) ]_vars

\* a drop stored the order that the drag-overs of a gated gesture had left
C11_Witness ==
  /\ lastEvent.type = "drop" /\ lastEvent.saves = 1
  /\ dragged # NoEl /\ gesture.dropped
  /\ lastSaved.written /\ storage = lastSaved.state
  /\ StoredStatsLast(storage)

\* C12: a TOGGLE_DASHBOARD_EDIT that turns the gate from active to inactive
\* saves exactly once, the snapshot of the live DOM at that moment; a toggle
\* from inactive to active saves nothing.
C12_ToggleSavesOnExit ==
  [][ Handled("toggle") =>
        /\ (editMode /\ ~editMode') => (SavesLiveDomOnce /\ UNCHANGED domVars)
        /\ (~editMode /\ editMode') => SavesNothing ]_vars

\* leaving edit mode stored an order that no drop had stored
C12_Witness ==
  /\ lastEvent.type = "toggle" /\ lastEvent.saves = 1 /\ ~editMode
  /\ gesture # NoGesture /\ ~gesture.dropped
  /\ storage = lastSaved.state
  /\ StoredStatsLast(storage)

\* C13: where the engine initialised, every TOGGLE_DASHBOARD_EDIT inverts the
\* gate, replies the gate's new value and changes no card's position, hidden
\* membership or span; the second of two consecutive toggles restores the gate.
C13_ToggleInverts ==
  [][ (Handled("toggle") /\ editState) =>
        /\ editMode' = ~editMode
        /\ lastEvent'.active = editMode'
        /\ wrapper' = wrapper /\ hiddenCls' = hiddenCls /\ buSpan' = buSpan
        /\ lastEvent.type = "toggle" => editMode' = ~lastEvent.active ]_vars

\* two toggles in a row, over a grid with a hidden card
C13_Witness ==
  /\ lastEvent.type = "toggle" /\ editState /\ nEvents = 2
  /\ ~editMode /\ ~lastEvent.active /\ lastEvent.saves = 1
  /\ \E e \in Els(page) : hiddenCls[e]

\* C14: GET_DASHBOARD_EDIT_STATE changes no state; it replies hasDashboard =
\* true exactly when setupDashboard initialised the engine on this page
\* instance and active = the gate; active is never true without hasDashboard,
\* and right after a toggle it is the value the toggle replied.
C14_GetReportsState ==
  [][ Handled("get") =>
        /\ UNCHANGED << budget, flagVars, popup, page, storage, contextValid, pc, statsReady, cache, cacheReady,
                        editState, domVars, editMode, dragged, gesture, lastSaved >>
        /\ lastEvent'.hasDashboard = (pc = "done" /\ HasDashboard(page))
        /\ lastEvent'.active = editMode
        /\ lastEvent'.active => lastEvent'.hasDashboard
        /\ lastEvent.type = "toggle" => lastEvent'.active = lastEvent.active ]_vars

\* a GET right after the toggle that opened the gate
C14_Witness ==
  /\ lastEvent.type = "get" /\ nEvents = 2
  /\ lastEvent.hasDashboard /\ lastEvent.active /\ editMode

\* card e lies in the segment of the grid its hidden membership calls for
InSegment(w, e, hidden) ==
  /\ Contains(w, e)
  /\ IF hidden
     THEN Contains(w, Divider) /\ IndexOf(w, Divider) < IndexOf(w, e)
     ELSE Contains(w, Divider) => IndexOf(w, e) < IndexOf(w, Divider)

\* C15: a click on a card's hide control flips that card's hidden membership
\* and moves it across the divider into the other segment, leaves the hidden
\* membership, span and relative order of every other card unchanged, and then
\* saves the order, hidden and spans read from the live DOM after the move.
C15_HideClick ==
  [][ Handled("hide") =>
        \E e \in SeqToSet(Cards(wrapper)) :
          /\ hiddenCls' = [hiddenCls EXCEPT ![e] = ~hiddenCls[e]]
          /\ InSegment(wrapper, e, hiddenCls[e])
          /\ InSegment(wrapper', e, hiddenCls'[e])
          /\ Remove(Cards(wrapper'), e) = Remove(Cards(wrapper), e)
          /\ buSpan' = buSpan
          /\ SavesLiveDomOnce ]_vars

\* the only hidden card was shown again, and the stored record says so
C15_Witness ==
  /\ lastEvent.type = "hide" /\ lastEvent.saves = 1
  /\ Len(wrapper) = 3 /\ ~Contains(wrapper, Divider)
  /\ lastSaved.written /\ storage = lastSaved.state
  /\ storage.hidden = <<>> /\ Len(storage.order) = 3
  /\ \E e \in Els(page) : buSpan[e] = "4"

\* C16: a click on the width button w of a card sets that card's span to w,
\* leaves exactly one width button of the card highlighted, the one for w,
\* changes no other card's span and no card's order or hidden membership, and
\* then saves a state with spans[card] = w.
C16_WidthClick ==
  [][ Handled("width") =>
        \E e \in SeqToSet(Cards(wrapper)), w \in SpanSet :
          /\ buSpan' = [buSpan EXCEPT ![e] = SpanString(w)]
          /\ SpanNumber(buSpan'[e]) = w
          /\ spanActive' = [spanActive EXCEPT ![e] = {w}]
          /\ Cardinality(spanActive'[e]) = 1
          /\ wrapper' = wrapper /\ hiddenCls' = hiddenCls
          /\ SavesLiveDomOnce
          /\ elId[e] \in DOMAIN lastSaved'.state.spans
          /\ lastSaved'.state.spans[elId[e]] = w ]_vars

\* the width of a hidden card was changed from the stored one, and stored
C16_Witness ==
  /\ lastEvent.type = "width" /\ lastEvent.saves = 1
  /\ \E e \in Els(page) :
       /\ hiddenCls[e] /\ buSpan[e] = "2" /\ spanActive[e] = {2}
       /\ storage.tag = "state" /\ elId[e] \in DOMAIN storage.spans
       /\ storage.spans[elId[e]] = 2
  /\ \E e \in Els(page) : spanActive[e] = {6}

\* C17: in every state of the rendered grid every shown card precedes every
\* hidden card, there is at most one divider, the divider is present exactly
\* when a card is hidden, and it sits between the last shown and the first
\* hidden card.
C17_DividerInvariant ==
  editState =>
    LET dividers == {i \in DOMAIN wrapper : wrapper[i] = Divider}
        hiddenAt == {i \in DOMAIN wrapper : wrapper[i] # Divider /\ hiddenCls[wrapper[i]]}
        shownAt == {i \in DOMAIN wrapper : wrapper[i] # Divider /\ ~hiddenCls[wrapper[i]]}
    IN /\ Cardinality(dividers) <= 1
       /\ (dividers # {}) <=> (hiddenAt # {})
       /\ \A i \in shownAt, j \in hiddenAt : i < j
       /\ \A d \in dividers : (\A i \in shownAt : i < d) /\ (\A j \in hiddenAt : d < j)
       /\ \A e \in Els(page) : hiddenCls[e] => Contains(wrapper, e)

\* a drag-over moved the dragged card to the end of the shown segment, right
\* in front of the divider
C17_Witness ==
  /\ lastEvent.type = "dragover" /\ dragged = 2
  /\ wrapper = <<1, 2, Divider, 3>>
  /\ hiddenCls[3] /\ ~hiddenCls[1] /\ ~hiddenCls[2]

C19_NullStateSetup ==
  [][ (pc = "loading" /\ pc' = "done" /\ HasDashboard(page) /\ cache = NullState) =>
        /\ editState'
        /\ wrapper' = [i \in Els(page) |-> i]
        /\ \A e \in Els(page) : ~hiddenCls'[e]
        /\ ~Contains(wrapper', Divider)
        /\ storage' = storage /\ cache' = cache /\ lastSaved' = lastSaved ]_vars

\* the step is a handler whose one save found the extension context gone
FailedSave ==
  /\ nEvents' = nEvents + 1
  /\ ~contextValid /\ ~contextValid'
  /\ lastEvent'.saves = 1

\* C20: a save whose store write fails is swallowed: the handler runs to its
\* end, the grid and the gate stay as the user action left them, the store
\* keeps its old record, and the store only ever changes by a later handler's
\* own save (the failed one is never retried).
C20_FailedSaveSwallowed ==
  [][ /\ FailedSave =>
           /\ lastEvent'.type \in {"hide", "width", "drop"}
           /\ SavesLiveDomOnce /\ storage' = storage /\ ~lastSaved'.written
           /\ editMode' = editMode /\ editState' = editState /\ pc' = pc
           /\ lastEvent'.type = "hide" =>
                \E e \in Els(page) : hiddenCls' = [hiddenCls EXCEPT ![e] = ~hiddenCls[e]]
           /\ lastEvent'.type = "width" =>
                \E e \in Els(page), w \in SpanSet : buSpan' = applySpan(buSpan, e, w)
           /\ lastEvent'.type = "drop" => UNCHANGED domVars
      /\ storage' # storage =>
           /\ nEvents' = nEvents + 1 /\ contextValid /\ lastEvent'.saves = 1
           /\ storage' = Snapshot(page, elId', wrapper', hiddenCls', buSpan') ]_vars

\* a hide click hid a card after the context was lost: the grid shows the card
\* hidden, the store does not
C20_Witness ==
  /\ lastEvent.type = "hide" /\ lastEvent.saves = 1
  /\ ~contextValid /\ ~lastSaved.written
  /\ \E e \in Els(page) : hiddenCls[e] /\ InSegment(wrapper, e, TRUE)
  /\ storage = AbsentItem /\ cache = lastSaved.state /\ cache.hidden # <<>>

\* the events only a handler attached by setupDashboard can answer
CardEvents == {"hide", "width", "dragstart", "dragover", "drop", "dragend"}

\* the page has no dashboard container, or one without any usos-frame
NoHostCard == ~page.container \/ page.frames = <<>>

\* C21: when the dashboard container is absent, or holds no usos-frame,
\* setupDashboard does nothing: no card is created, moved or tagged, no handler
\* is attached, nothing is written to the store, run() goes on, and the engine
\* is not initialised for this page load.
C21_AbsentContainer ==
  [][ /\ (pc = "loading" /\ pc' = "done" /\ NoHostCard) =>
           /\ UNCHANGED << domVars, editState, editMode, dragged, gesture >>
           /\ UNCHANGED << storage, cache, lastSaved >>
      /\ (pc' = "done" /\ NoHostCard) =>
           /\ ~editState' /\ ~editMode'
           /\ wrapper' = <<>>
           /\ elId' = [e \in Els(page) |-> Frames(page)[e].id]
           /\ lastEvent'.type \notin CardEvents ]_vars

\* setupDashboard returned early on a page whose container holds no usos-frame,
\* and a toggle was answered afterwards
C21_Witness ==
  /\ pc = "done" /\ page.container /\ page.frames = <<>>
  /\ lastEvent.type = "toggle" /\ ~lastEvent.active
  /\ ~editState /\ wrapper = <<>>

\* two elements of the page that differ at most in their displayed title
SameButText(e, f) ==
  /\ Frames(page)[e].id = Frames(page)[f].id
  /\ Frames(page)[e].href = Frames(page)[f].href

\* C22: the id resolved for a card is its native id when it has one, and
\* otherwise depends on its title link target only: elements that differ only
\* in display text get the same id, and once discovery has written the id onto
\* the element every later resolution (getCurrentOrder, getHiddenIds, getSpans)
\* returns that id.
C22_IdStability ==
  /\ \A e \in Els(page) :
       Frames(page)[e].id # "" => getFrameId(Frames(page)[e]) = Frames(page)[e].id
  /\ \A e, f \in Els(page) :
       SameButText(e, f) => getFrameId(Frames(page)[e]) = getFrameId(Frames(page)[f])
  /\ editState =>
       /\ \A e \in Els(page) :
            /\ elId[e] = getFrameId(Frames(page)[e])
            /\ getFrameId(LiveEl(page, elId, e)) = elId[e]
       /\ LET snap == Snapshot(page, elId, wrapper, hiddenCls, buSpan)
              cs == Cards(wrapper)
              hid == Filter(cs, {e \in SeqToSet(cs) : hiddenCls[e]})
          IN /\ snap.order = [i \in DOMAIN cs |-> getFrameId(Frames(page)[cs[i]])]
             /\ snap.hidden = [i \in DOMAIN hid |-> getFrameId(Frames(page)[hid[i]])]
             /\ DOMAIN snap.spans \subseteq {getFrameId(Frames(page)[e]) : e \in SeqToSet(cs)}

\* a page with the same card titled in two languages was set up
C22_Witness ==
  /\ JustSetUp
  /\ \E e, f \in Els(page) :
       /\ SameButText(e, f) /\ Frames(page)[e].text # Frames(page)[f].text
       /\ Frames(page)[e].id = "" /\ elId[e] = "bu-176" /\ elId[f] = elId[e]

\* C23 (as claimed): no drag-over changes the card order while the Edit-Mode
\* Gate is inactive, also when a TOGGLE_DASHBOARD_EDIT turned the gate off
\* between the drag-start and the drag-end of the gesture.
C23_GateAtEveryMoment ==
  [][ (Handled("dragover") /\ ~editMode) => wrapper' = wrapper ]_vars

\* C24: a drag-over on a card of the dragged card's partition, other than the
\* dragged card, puts the dragged card immediately before the target when the
\* pointer is above the target's midpoint and immediately after it otherwise;
\* the set of cards, the relative order of the other cards, every hidden
\* membership and every span stay; a drag-over on the dragged card itself or
\* without a session changes nothing.
C24_DragOverPlacement ==
  [][ Handled("dragover") =>
        LET t == lastEvent'.el
            d == dragged
        IN /\ hiddenCls' = hiddenCls /\ buSpan' = buSpan /\ elId' = elId
           /\ (d = NoEl \/ t = d) => wrapper' = wrapper
           /\ (d # NoEl /\ t # d /\ hiddenCls[d] = hiddenCls[t]) =>
                /\ Remove(wrapper', d) = Remove(wrapper, d)
                /\ Contains(wrapper', d)
                /\ IF lastEvent'.above
                   THEN IndexOf(wrapper', d) + 1 = IndexOf(wrapper', t)
                   ELSE IndexOf(wrapper', d) = IndexOf(wrapper', t) + 1 ]_vars

\* the first card was dragged below the last one
C24_Witness ==
  /\ lastEvent.type = "dragover" /\ ~lastEvent.above
  /\ dragged = 1 /\ lastEvent.el = 3
  /\ wrapper = <<2, 3, 1>>

\* C25: a drag-over delivered a second time (same dragged card, same target,
\* same side of the midpoint) leaves the card order as the first delivery left
\* it.
C25_DragOverIdempotent ==
  [][ (Handled("dragover") /\ lastEvent.type = "dragover" /\ lastEvent' = lastEvent)
        => wrapper' = wrapper ]_vars

\* a drag-over behind the target was delivered with the dragged card already
\* behind that target
C25_Witness ==
  /\ lastEvent.type = "dragover" /\ ~lastEvent.above /\ nEvents = 4
  /\ dragged = 1 /\ lastEvent.el = 2
  /\ wrapper = <<2, 1, 3>> /\ editMode

\* state st is well formed for the grid w
WellFormed(st, w) ==
  LET gridIds == {getFrameId(Frames(page)[e]) : e \in SeqToSet(Cards(w))}
  IN /\ st.tag = "state"
     /\ Cardinality(SeqToSet(st.order)) = Len(st.order)
     /\ SeqToSet(st.order) = gridIds
     /\ Len(st.order) = Len(Cards(w))
     /\ SeqToSet(st.hidden) \subseteq SeqToSet(st.order)
     /\ DOMAIN st.spans \subseteq SeqToSet(st.order)
     /\ \A id \in DOMAIN st.spans : st.spans[id] \in {2, 3, 4, 6}

\* C26: every state passed to save is well formed, whatever was loaded: order
\* has no duplicate and is exactly the cards of the grid, every hidden id and
\* every spans key occurs in order, and every spans value is 2, 3, 4 or 6.
C26_SavedStateWellFormed ==
  /\ lastEvent.saves = 1 =>
       (lastSaved.state = cache /\ WellFormed(lastSaved.state, wrapper))
  /\ editState => WellFormed(Snapshot(page, elId, wrapper, hiddenCls, buSpan), wrapper)

\* the first save of a page instance that had loaded a record with stale ids
C26_Witness ==
  /\ lastEvent.type = "width" /\ lastEvent.saves = 1 /\ nEvents = 1
  /\ \E e \in Els(page) : hiddenCls[e]
  /\ lastSaved.written /\ storage = lastSaved.state
  /\ "gone" \notin SeqToSet(storage.order) \cup SeqToSet(storage.hidden) \cup DOMAIN storage.spans

\* the engine did not initialise on this page instance: run() was never called
\* (cached flag off), the load has not finished, or setupDashboard returned early
NotInitialised == pc = "off" \/ pc = "loading" \/ NoHostCard

\* C27: when the engine did not initialise on the page (extension disabled by
\* the cached enabled flag, dashboard container absent, or load not finished),
\* TOGGLE_DASHBOARD_EDIT replies {active: false}, changes no state and writes
\* nothing to the store, and GET_DASHBOARD_EDIT_STATE replies
\* {hasDashboard: false, active: false}.
C27_NotInitialisedReplies ==
  [][ /\ (Handled("toggle") /\ NotInitialised) =>
           /\ ~lastEvent'.active /\ lastEvent'.saves = 0
           /\ UNCHANGED << domVars, editMode, editState, dragged, gesture, pc >>
           /\ UNCHANGED << storage, cache, lastSaved, enabledCache, syncEnabled >>
      /\ (Handled("get") /\ NotInitialised) =>
           /\ ~lastEvent'.hasDashboard /\ ~lastEvent'.active
           /\ UNCHANGED << domVars, editMode, editState, storage, cache, lastSaved >> ]_vars

\* a toggle was answered by a page with a dashboard that the cached flag had
\* switched off
C27_Witness ==
  /\ lastEvent.type = "toggle" /\ ~lastEvent.active
  /\ enabledCache = "false" /\ ~isEnabled /\ pc = "off"
  /\ page.container /\ page.frames # <<>>
  /\ ~editState /\ ~editMode /\ wrapper = <<>>

\* C28 (as claimed): whenever the gate is inactive and no drag session is in
\* progress, either the layout is still the one setup rendered or the state
\* most recently passed to save is the state read from the live DOM: no
\* reorder made by dragging is left unpersisted once edit mode has been left.
C28_NothingUnpersisted ==
  (editState /\ ~editMode /\ dragged = NoEl /\ gesture = NoGesture) =>
    \/ /\ cache = lastSaved.state
       /\ lastSaved.state = Snapshot(page, elId, wrapper, hiddenCls, buSpan)
    \/ LET dom == RenderedDom(page, cache)
       IN wrapper = dom.wrapper /\ hiddenCls = dom.hiddenCls /\ buSpan = dom.buSpan

\* C29 (as claimed): while the popup is open and no message is in flight, the
\* edit state it displays equals the page's Edit-Mode Gate and its hasDashboard
\* equals whether the engine is initialised on the current page instance, also
\* after its own enable/disable toggle has reloaded the page.
C29_PopupShowsPageState ==
  popup.open =>
    /\ (popup.editActive = "true") <=> editMode
    /\ popup.hasDashboard <=> editState

\* the synced setting, read the way the content script and the popup read it
SyncedOn == syncEnabled # "false"

\* the page instance has finished starting: run() was never called, or its
\* last step, applySettings, is done
Settled == pc = "off" \/ applied

\* C30 (as claimed): the cached enabled flag eventually agrees with the synced
\* setting: a page loaded again after an undisturbed, finished load (no
\* enable/disable toggle since that load began) runs exactly when the synced
\* setting is enabled.
C30_FlagFollowsSync ==
  [][ (nEvents' = nEvents + 1 /\ lastEvent' = NoEvent
       /\ syncEnabled' = syncEnabled /\ quiet /\ Settled)
        => (isEnabled' <=> SyncedOn) ]_vars

====
